---- MODULE Spec2Model ----
(***************************************************************************)
(* Lebanon Health Infrastructure dashboard (src/streamlit_app.py).         *)
(*                                                                         *)
(* One run of the script is modelled statement group by statement group:   *)
(* page header, CSV load and header normalisation, validation, numeric     *)
(* coercion, per-town aggregation, the sidebar widgets, the town filter,   *)
(* the two chart shapes and the two chart renders.  A run ends in "done",  *)
(* in "stopped" (st.stop() after the missing-columns message) or in        *)
(* "raised" (an exception escaped the script).                             *)
(*                                                                         *)
(* Text is modelled as sequences of one-character strings, so that         *)
(* parsing, case folding and pattern matching are computed, not assumed.   *)
(***************************************************************************)
EXTENDS Integers, Sequences, FiniteSets

VARIABLES
    csv,            \* the file: sequence of columns [label, cells], all text
    pc,             \* position of the run in the script
    err,            \* exception type that escaped, "" when none
    rendered,       \* sequence of things put on the page so far
    df,             \* the DataFrame: sequence of columns [name, cells]
    agg,            \* per-town aggregate rows
    slider,         \* arguments handed to st.slider
    n_towns,        \* value returned by st.slider
    name_filter,    \* value returned by st.text_input
    agg_filtered,   \* aggregate rows kept by the filter
    top20,          \* rows selected for the bar chart
    long_top20,     \* melted bar-chart table
    order,          \* categorical town ordering of the bar chart
    topN,           \* rows selected for the heatmap
    mat             \* heatmap matrix

vars == <<csv, pc, err, rendered, df, agg, slider, n_towns, name_filter,
          agg_filtered, top20, long_top20, order, topN, mat>>

(***************************************************************************)
(* Bounds of the explored inputs.                                          *)
(***************************************************************************)
MaxExtra == 1        \* records appended after the generated one-per-town rows
MaxFilterLen == 2    \* characters typed into the filter box

(***************************************************************************)
(* Program constants.                                                      *)
(***************************************************************************)
SliderMin == 10
SliderCap == 60
SliderDefault == 30
SliderStep == 5
BarTopN == 20

need == <<"hospitals", "clinics", "pharmacies", "medical_centers">>

pretty(c) ==
    CASE c = "hospitals" -> "Hospitals"
      [] c = "clinics" -> "Clinics"
      [] c = "pharmacies" -> "Pharmacies"
      [] c = "medical_centers" -> "Medical Centers"

(***************************************************************************)
(* Generic helpers.                                                        *)
(***************************************************************************)
Min(a, b) == IF a <= b THEN a ELSE b

Range(s) == {s[i] : i \in 1..Len(s)}

RECURSIVE SeqsUpTo(_, _)
SeqsUpTo(S, n) ==
    IF n = 0 THEN {<<>>}
    ELSE LET shorter == SeqsUpTo(S, n - 1)
         IN  shorter \cup {Append(s, x) : s \in shorter, x \in S}

RECURSIVE SumSeq(_)
SumSeq(s) == IF s = <<>> THEN 0 ELSE Head(s) + SumSeq(Tail(s))

(***************************************************************************)
(* Missing values.  A cell read from the file is text or NaN; a number     *)
(* produced by to_numeric is an integer or NaN.                            *)
(***************************************************************************)
NaN == [na |-> TRUE, s |-> <<>>]
Str(t) == [na |-> FALSE, s |-> t]
NumNaN == [na |-> TRUE, v |-> 0]
Num(n) == [na |-> FALSE, v |-> n]

(***************************************************************************)
(* Column labels are sequences of tokens; " " is one whitespace character, *)
(* every other token is a run of non-whitespace text.                      *)
(***************************************************************************)
RECURSIVE LStrip(_)
LStrip(l) == IF l # <<>> /\ Head(l) = " " THEN LStrip(Tail(l)) ELSE l

RECURSIVE RStrip(_)
RStrip(l) ==
    IF l # <<>> /\ l[Len(l)] = " " THEN RStrip(SubSeq(l, 1, Len(l) - 1)) ELSE l

Strip(l) == RStrip(LStrip(l))

RECURSIVE CollapseWs(_)
CollapseWs(l) ==
    IF Len(l) < 2 THEN l
    ELSE IF l[1] = " " /\ l[2] = " " THEN CollapseWs(Tail(l))
    ELSE <<l[1]>> \o CollapseWs(Tail(l))

NormalizeLabel(l) == CollapseWs(Strip(l))

LongLabel(c) ==
    <<"Type", " ", "and", " ", "size", " ", "of", " ", "medical", " ",
      "resources", " ", "-", " ">> \o
    (CASE c = "hospitals" -> <<"Hospitals">>
       [] c = "clinics" -> <<"Clinics">>
       [] c = "pharmacies" -> <<"Pharmacies">>
       [] c = "medical_centers" -> <<"Medical", " ", "Centers">>)

\* The four entries of rename_map whose targets the script reads; its other
\* entries rename auxiliary columns that are never used afterwards.
rename_map(l) ==
    IF \E i \in 1..Len(need) : l = LongLabel(need[i])
    THEN <<need[CHOOSE i \in 1..Len(need) : l = LongLabel(need[i])]>>
    ELSE l

ColumnName(label) == rename_map(NormalizeLabel(label))

ReadCell(text) == IF text = <<>> THEN NaN ELSE Str(text)

read_csv(file) ==
    [j \in 1..Len(file) |->
        [name |-> ColumnName(file[j].label),
         cells |-> [i \in 1..Len(file[j].cells) |-> ReadCell(file[j].cells[i])]]]

(***************************************************************************)
(* DataFrame access.                                                       *)
(***************************************************************************)
Columns(frame) == {frame[j].name : j \in 1..Len(frame)}
Positions(frame, name) == {j \in 1..Len(frame) : frame[j].name = name}
Col(frame, name) == frame[CHOOSE j \in Positions(frame, name) : TRUE].cells
NRows(frame) == IF frame = <<>> THEN 0 ELSE Len(frame[1].cells)

\* Variant: stops only when every resource column is absent (all for any).
MissingRequiredAll(frame) ==
    \/ <<"Town">> \notin Columns(frame)
    \/ \A i \in 1..Len(need) : <<need[i]>> \notin Columns(frame)

MissingRequired(frame) ==
    \/ <<"Town">> \notin Columns(frame)
    \/ \E i \in 1..Len(need) : <<need[i]>> \notin Columns(frame)

(***************************************************************************)
(* pd.to_numeric(errors="coerce").fillna(0) on one cell.                   *)
(***************************************************************************)
Digits == <<"0", "1", "2", "3", "4", "5", "6", "7", "8", "9">>
IsDigit(c) == \E d \in 1..10 : Digits[d] = c
DigitVal(c) == (CHOOSE d \in 1..10 : Digits[d] = c) - 1

RECURSIVE ParseDigits(_, _)
ParseDigits(t, acc) ==
    IF t = <<>> THEN Num(acc)
    ELSE IF IsDigit(Head(t)) THEN ParseDigits(Tail(t), 10 * acc + DigitVal(Head(t)))
    ELSE NumNaN

\* Variant: reads the leading digits and ignores what follows, as atoi does.
RECURSIVE ParsePrefix(_, _)
ParsePrefix(t, acc) ==
    IF t = <<>> THEN Num(acc)
    ELSE IF IsDigit(Head(t)) THEN ParsePrefix(Tail(t), 10 * acc + DigitVal(Head(t)))
    ELSE Num(acc)

to_numeric_prefix(cell) ==
    IF cell.na \/ cell.s = <<>> THEN NumNaN
    ELSE IF Head(cell.s) = "-"
         THEN IF Len(cell.s) = 1 THEN NumNaN
              ELSE Num(0 - ParsePrefix(Tail(cell.s), 0).v)
    ELSE IF IsDigit(Head(cell.s)) THEN ParsePrefix(cell.s, 0)
    ELSE NumNaN

to_numeric(cell) ==
    IF cell.na \/ cell.s = <<>> THEN NumNaN
    ELSE IF Head(cell.s) = "-"
         THEN IF Len(cell.s) = 1 THEN NumNaN
              ELSE LET m == ParseDigits(Tail(cell.s), 0)
                   IN  IF m.na THEN NumNaN ELSE Num(0 - m.v)
    ELSE ParseDigits(cell.s, 0)

fillna(x, fill) == IF x.na THEN fill ELSE x.v

Coerced(cell) == fillna(to_numeric(cell), 0)

CoerceFrame(frame) ==
    [j \in 1..Len(frame) |->
        IF \E i \in 1..Len(need) : frame[j].name = <<need[i]>>
        THEN [name |-> frame[j].name,
              cells |-> [i \in 1..Len(frame[j].cells) |-> Coerced(frame[j].cells[i])]]
        ELSE frame[j]]

(***************************************************************************)
(* groupby("Town", dropna=False)[need].sum().reset_index(), then TOTAL.    *)
(* Group keys come out sorted by code point, the NaN key last.             *)
(***************************************************************************)
Letters == <<"A", "B", "C", "D", "a", "b", "c", "d">>
CodeRank(c) == CHOOSE k \in 1..Len(Letters) : Letters[k] = c

RECURSIVE StrLess(_, _)
StrLess(a, b) ==
    IF b = <<>> THEN FALSE
    ELSE IF a = <<>> THEN TRUE
    ELSE IF Head(a) = Head(b) THEN StrLess(Tail(a), Tail(b))
    ELSE CodeRank(Head(a)) < CodeRank(Head(b))

KeyLess(a, b) ==
    IF a.na THEN FALSE
    ELSE IF b.na THEN TRUE
    ELSE StrLess(a.s, b.s)

\* Variant: groupby's default dropna=True, which leaves the NaN key out.
GroupKeysDropNa(towns) == {towns[i] : i \in {j \in 1..Len(towns) : ~towns[j].na}}

GroupKeys(towns) == Range(towns)

SortedKeys(keys) ==
    [p \in 1..Cardinality(keys) |->
        CHOOSE k \in keys : Cardinality({k2 \in keys : KeyLess(k2, k)}) = p - 1]

GroupRows(towns, key) == {i \in 1..Len(towns) : towns[i] = key}

RECURSIVE SumOver(_, _)
SumOver(cells, idx) ==
    IF idx = {} THEN 0
    ELSE LET i == CHOOSE i \in idx : TRUE
         IN  cells[i] + SumOver(cells, idx \ {i})

\* Variant: TOTAL summed over three of the four resource columns.
AggRowShortTotal(frame, key) ==
    LET idx == GroupRows(Col(frame, <<"Town">>), key)
        h == SumOver(Col(frame, <<"hospitals">>), idx)
        c == SumOver(Col(frame, <<"clinics">>), idx)
        p == SumOver(Col(frame, <<"pharmacies">>), idx)
        m == SumOver(Col(frame, <<"medical_centers">>), idx)
    IN  [Town |-> key, hospitals |-> h, clinics |-> c, pharmacies |-> p,
         medical_centers |-> m, TOTAL |-> h + c + p]

AggRow(frame, key) ==
    LET idx == GroupRows(Col(frame, <<"Town">>), key)
        h == SumOver(Col(frame, <<"hospitals">>), idx)
        c == SumOver(Col(frame, <<"clinics">>), idx)
        p == SumOver(Col(frame, <<"pharmacies">>), idx)
        m == SumOver(Col(frame, <<"medical_centers">>), idx)
    IN  [Town |-> key, hospitals |-> h, clinics |-> c, pharmacies |-> p,
         medical_centers |-> m, TOTAL |-> h + c + p + m]

Aggregated(frame) ==
    LET keys == SortedKeys(GroupKeys(Col(frame, <<"Town">>)))
    IN  [k \in 1..Len(keys) |-> AggRow(frame, keys[k])]

(***************************************************************************)
(* Input files explored.                                                   *)
(***************************************************************************)
TownName(i) == <<Letters[((i - 1) \div 8) + 1], Letters[((i - 1) % 8) + 1]>>

Thresholds == {SliderMin, BarTopN, SliderDefault, SliderCap}
TownCounts == {0, 1} \cup {t + d : t \in Thresholds, d \in {-1, 0, 1}}

DigitText(n) == <<Digits[n + 1]>>

\* Row i of the generated part lists town n+1-i: the file is not in key order.
BaseTown(n, i) == TownName(n + 1 - i)
BaseCell(n, i, c, ties) ==
    LET t == n + 1 - i
    IN  IF ties THEN DigitText(1)
        ELSE CASE c = "hospitals" -> DigitText(t % 3)
               [] c = "clinics" -> DigitText((t \div 3) % 2)
               [] c = "pharmacies" -> DigitText(t % 4)
               [] c = "medical_centers" -> DigitText(0)

CellTexts ==
    {<<>>, <<"x">>, <<"-">>, <<"2">>, <<"-", "1">>, <<"1", "x">>, <<"1", "2">>}

ExtraRecords ==
    {[Town |-> tn, hospitals |-> t, clinics |-> <<"1">>, pharmacies |-> <<"2">>,
      medical_centers |-> t] : tn \in {<<>>, TownName(1)}, t \in CellTexts}

FieldOf(r, c) ==
    CASE c = "Town" -> r.Town
      [] c = "hospitals" -> r.hospitals
      [] c = "clinics" -> r.clinics
      [] c = "pharmacies" -> r.pharmacies
      [] c = "medical_centers" -> r.medical_centers

DataCells(n, ties, extra, c) ==
    [i \in 1..(n + Len(extra)) |->
        IF i <= n
        THEN IF c = "Town" THEN BaseTown(n, i) ELSE BaseCell(n, i, c, ties)
        ELSE FieldOf(extra[i - n], c)]

DefaultLabel(c) == IF c = "Town" THEN <<"Town">> ELSE LongLabel(c)

PaddedLabel(c) ==
    LET l == DefaultLabel(c)
    IN  <<" ", " ">> \o
        (IF Len(l) > 1 THEN <<l[1], " ">> \o Tail(l) ELSE l) \o <<" ">>

UnmappedLabel(c) == <<c, " ", "count">>

HeaderVariants == {"default", "short", "padded", "unmapped", "absent", "dup"}

AllColumns == <<"Town", "hospitals", "clinics", "pharmacies", "medical_centers">>

\* The labels under which column c appears in the file.
LabelsFor(c, dev, variant) ==
    IF c # dev \/ variant = "default" THEN <<DefaultLabel(c)>>
    ELSE CASE variant = "short" -> <<<<c>>>>
           [] variant = "padded" -> <<PaddedLabel(c)>>
           [] variant = "unmapped" -> <<UnmappedLabel(c)>>
           [] variant = "absent" -> <<>>
           [] variant = "dup" -> <<DefaultLabel(c), PaddedLabel(c)>>

RECURSIVE FileColumns(_, _, _, _, _, _)
FileColumns(k, n, ties, extra, dev, variant) ==
    IF k > Len(AllColumns) THEN <<>>
    ELSE LET c == AllColumns[k]
             ls == LabelsFor(c, dev, variant)
         IN  [j \in 1..Len(ls) |->
                 [label |-> ls[j], cells |-> DataCells(n, ties, extra, c)]]
             \o FileColumns(k + 1, n, ties, extra, dev, variant)

InputFiles ==
    {FileColumns(1, n, ties, <<>>, "Town", "default") :
        n \in TownCounts, ties \in BOOLEAN}
    \cup
    {FileColumns(1, SliderMin, FALSE, extra, "Town", "default") :
        extra \in SeqsUpTo(ExtraRecords, MaxExtra)}
    \cup
    {FileColumns(1, n, FALSE, <<>>, dev, variant) :
        n \in {1, SliderMin}, dev \in Range(AllColumns), variant \in HeaderVariants}

(***************************************************************************)
(* The run.                                                                *)
(***************************************************************************)
Init ==
    /\ csv \in InputFiles
    /\ pc = "page"
    /\ err = ""
    /\ rendered = <<>>
    /\ df = <<>>
    /\ agg = <<>>
    /\ slider = [min_value |-> 0, max_value |-> 0, value |-> 0]
    /\ n_towns = 0
    /\ name_filter = <<>>
    /\ agg_filtered = <<>>
    /\ top20 = <<>>
    /\ long_top20 = <<>>
    /\ order = <<>>
    /\ topN = <<>>
    /\ mat = <<>>

\* st.set_page_config / st.title / st.caption / st.markdown("Purpose ...")
Page ==
    /\ pc = "page"
    /\ rendered' = rendered \o <<"title", "caption", "purpose">>
    /\ pc' = "load"
    /\ UNCHANGED <<csv, err, df, agg, slider, n_towns, name_filter,
                   agg_filtered, top20, long_top20, order, topN, mat>>

\* pd.read_csv, header normalisation, rename
Load ==
    /\ pc = "load"
    /\ df' = read_csv(csv)
    /\ pc' = "validate"
    /\ UNCHANGED <<csv, err, rendered, agg, slider, n_towns, name_filter,
                   agg_filtered, top20, long_top20, order, topN, mat>>

\* the required-columns check: st.error + st.stop
Validate ==
    /\ pc = "validate"
    /\ IF MissingRequired(df)
       THEN /\ rendered' = Append(rendered, "error")
            /\ pc' = "stopped"
       ELSE /\ rendered' = rendered
            /\ pc' = "coerce"
    /\ UNCHANGED <<csv, err, df, agg, slider, n_towns, name_filter,
                   agg_filtered, top20, long_top20, order, topN, mat>>

\* for c in need: df[c] = pd.to_numeric(df[c], errors="coerce").fillna(0)
\* df[c] is a DataFrame, not a Series, when two columns carry the name c.
Coerce ==
    /\ pc = "coerce"
    /\ IF \E i \in 1..Len(need) : Cardinality(Positions(df, <<need[i]>>)) > 1
       THEN /\ pc' = "raised"
            /\ err' = "TypeError"
            /\ df' = df
       ELSE /\ pc' = "aggregate"
            /\ err' = err
            /\ df' = CoerceFrame(df)
    /\ UNCHANGED <<csv, rendered, agg, slider, n_towns, name_filter,
                   agg_filtered, top20, long_top20, order, topN, mat>>

\* agg = df.groupby("Town", dropna=False)[need].sum().reset_index(); TOTAL
Aggregate ==
    /\ pc = "aggregate"
    /\ IF Cardinality(Positions(df, <<"Town">>)) > 1
       THEN /\ pc' = "raised"
            /\ err' = "ValueError: Grouper for 'Town' not 1-dimensional"
            /\ agg' = agg
       ELSE /\ pc' = "sidebar"
            /\ err' = err
            /\ agg' = Aggregated(df)
    /\ UNCHANGED <<csv, rendered, df, slider, n_towns, name_filter,
                   agg_filtered, top20, long_top20, order, topN, mat>>

(***************************************************************************)
(* Sidebar: st.slider and st.text_input.                                   *)
(***************************************************************************)
FilterAlphabet == {"a", ".", "(", "*", " "}
FilterTexts == SeqsUpTo(FilterAlphabet, MaxFilterLen)

max_n_of(a) == Min(SliderCap, Len(a))

SliderArgs(a) ==
    [min_value |-> SliderMin, max_value |-> max_n_of(a),
     value |-> Min(SliderDefault, max_n_of(a))]

\* Values the widget hands back for consistent arguments: the default on the
\* first run, or a position min_value + k*step the user dragged to.
SliderValues(args) ==
    {args.value} \cup
    {v \in args.min_value..args.max_value : (v - args.min_value) % SliderStep = 0}

\* with st.sidebar: ...
\* With max_value < min_value the outcome depends on the Streamlit release:
\* the call raises, or the range is widened to hold the default, which is
\* then the only value.
Sidebar ==
    /\ pc = "sidebar"
    /\ slider' = SliderArgs(agg)
    /\ \/ /\ slider'.min_value <= slider'.max_value
          /\ n_towns' \in SliderValues(slider')
          /\ name_filter' \in FilterTexts
          /\ pc' = "filter"
          /\ err' = err
       \/ /\ slider'.min_value > slider'.max_value
          /\ n_towns' = slider'.value
          /\ name_filter' \in FilterTexts
          /\ pc' = "filter"
          /\ err' = err
       \/ /\ slider'.min_value > slider'.max_value
          /\ n_towns' = n_towns
          /\ name_filter' = name_filter
          /\ pc' = "raised"
          /\ err' = "StreamlitAPIException"
    /\ UNCHANGED <<csv, rendered, df, agg, agg_filtered, top20, long_top20,
                   order, topN, mat>>

(***************************************************************************)
(* Town filter: Series.str.contains(pat, case=False, na=False), which      *)
(* compiles pat as a regular expression with re.IGNORECASE.                *)
(***************************************************************************)
Lower(c) ==
    CASE c = "A" -> "a"
      [] c = "B" -> "b"
      [] c = "C" -> "c"
      [] c = "D" -> "d"
      [] OTHER -> c

\* re.compile over the characters of FilterAlphabet: "(" opens a group that
\* is never closed, "*" needs an unrepeated item before it.
RECURSIVE ReParse(_, _)
ReParse(p, atoms) ==
    IF p = <<>> THEN [ok |-> TRUE, atoms |-> atoms]
    ELSE IF Head(p) = "(" THEN [ok |-> FALSE, atoms |-> <<>>]
    ELSE IF Head(p) = "*"
         THEN IF atoms = <<>> \/ atoms[Len(atoms)].star
              THEN [ok |-> FALSE, atoms |-> <<>>]
              ELSE ReParse(Tail(p),
                       [atoms EXCEPT ![Len(atoms)] = [ch |-> @.ch, star |-> TRUE]])
    ELSE ReParse(Tail(p), Append(atoms, [ch |-> Head(p), star |-> FALSE]))

re_compile(p) == ReParse(p, <<>>)

AtomMatches(atom, c) == atom.ch = "." \/ Lower(atom.ch) = Lower(c)

RECURSIVE MatchHere(_, _)
MatchHere(atoms, s) ==
    IF atoms = <<>> THEN TRUE
    ELSE IF Head(atoms).star
         THEN \/ MatchHere(Tail(atoms), s)
              \/ /\ s # <<>>
                 /\ AtomMatches(Head(atoms), Head(s))
                 /\ MatchHere(atoms, Tail(s))
    ELSE /\ s # <<>>
         /\ AtomMatches(Head(atoms), Head(s))
         /\ MatchHere(Tail(atoms), Tail(s))

re_search(atoms, s) ==
    \E k \in 0..Len(s) : MatchHere(atoms, SubSeq(s, k + 1, Len(s)))

\* str.contains on one Town value; na=False answers False for NaN.
Contains(town, atoms) == IF town.na THEN FALSE ELSE re_search(atoms, town.s)

\* Boolean indexing: the rows whose Town matches, in their order.
FilterRows(rows, atoms) ==
    LET F[k \in 0..Len(rows)] ==
            IF k = 0 THEN <<>>
            ELSE IF Contains(rows[k].Town, atoms) THEN Append(F[k - 1], rows[k])
            ELSE F[k - 1]
    IN  F[Len(rows)]

\* agg_filtered = agg.copy(); if name_filter.strip(): agg_filtered = ...
Filter ==
    /\ pc = "filter"
    /\ LET pat == Strip(name_filter)
           re == re_compile(pat)
       IN  IF pat = <<>>
           THEN /\ agg_filtered' = agg
                /\ pc' = "chart1"
                /\ err' = err
           ELSE IF ~re.ok
           THEN /\ agg_filtered' = agg
                /\ pc' = "raised"
                /\ err' = "re.error"
           ELSE /\ agg_filtered' = FilterRows(agg, re.atoms)
                /\ pc' = "chart1"
                /\ err' = err
    /\ UNCHANGED <<csv, rendered, df, agg, slider, n_towns, name_filter,
                   top20, long_top20, order, topN, mat>>

(***************************************************************************)
(* Chart shapes.                                                           *)
(***************************************************************************)
\* Stable descending sort by TOTAL: equal totals keep their incoming order.
\* Variant: a row goes in front of the rows of equal TOTAL (keep="last").
InsertDescLast(sorted, r) ==
    LET p == Cardinality({i \in 1..Len(sorted) : sorted[i].TOTAL > r.TOTAL})
    IN  SubSeq(sorted, 1, p) \o <<r>> \o SubSeq(sorted, p + 1, Len(sorted))

InsertDesc(sorted, r) ==
    LET p == Cardinality({i \in 1..Len(sorted) : sorted[i].TOTAL >= r.TOTAL})
    IN  SubSeq(sorted, 1, p) \o <<r>> \o SubSeq(sorted, p + 1, Len(sorted))

SortDescStable(rows) ==
    LET F[k \in 0..Len(rows)] ==
            IF k = 0 THEN <<>> ELSE InsertDesc(F[k - 1], rows[k])
    IN  F[Len(rows)]

\* Variant: keep="all", which also returns every row tied with the n-th.
nlargest_keep_all(rows, n) ==
    IF n <= 0 THEN <<>>
    ELSE LET st == SortDescStable(rows)
             m == Min(n, Len(rows))
             last == Cardinality({i \in 1..Len(st) : st[i].TOTAL >= st[m].TOTAL})
         IN  SubSeq(st, 1, last)

\* DataFrame.nlargest(n, "TOTAL"), keep="first"
nlargest(rows, n) ==
    IF n <= 0 THEN <<>> ELSE SubSeq(SortDescStable(rows), 1, Min(n, Len(rows)))

DropTotal(r) ==
    [Town |-> r.Town, hospitals |-> r.hospitals, clinics |-> r.clinics,
     pharmacies |-> r.pharmacies, medical_centers |-> r.medical_centers]

DropTotals(rows) == [k \in 1..Len(rows) |-> DropTotal(rows[k])]

ValueOf(r, c) ==
    CASE c = "hospitals" -> r.hospitals
      [] c = "clinics" -> r.clinics
      [] c = "pharmacies" -> r.pharmacies
      [] c = "medical_centers" -> r.medical_centers

\* melt(id_vars="Town", value_vars=need), then Resource mapped through pretty:
\* one block of rows per resource, each block in the order of the selection.
melt(rows) ==
    [k \in 1..(Len(need) * Len(rows)) |->
        LET c == need[((k - 1) \div Len(rows)) + 1]
            r == rows[((k - 1) % Len(rows)) + 1]
        IN  [Town |-> r.Town, Resource |-> pretty(c), count |-> ValueOf(r, c)]]

AssignTotal(rows) ==
    [k \in 1..Len(rows) |->
        [Town |-> rows[k].Town,
         TOTAL |-> rows[k].hospitals + rows[k].clinics + rows[k].pharmacies
                   + rows[k].medical_centers]]

SwapAt(s, i) == [s EXCEPT ![i] = s[i + 1], ![i + 1] = s[i]]

\* sort_values("TOTAL", ascending=False) sorts with the default kind,
\* quicksort, which is not stable: rows of equal TOTAL may come out in any
\* relative order.  numpy's quicksort partitions only ranges of more than 17
\* elements and finishes shorter ones by insertion sort, which keeps ties in
\* place, so the tie order is open from 18 rows on.  Two of the possible
\* outcomes are explored there: the stable one, and the one with the first
\* pair of tied neighbours exchanged.
SortValuesDesc(rows) ==
    LET st == SortDescStable(rows)
        tied == {i \in 1..(Len(st) - 1) : st[i].TOTAL = st[i + 1].TOTAL}
    IN  {st} \cup
        (IF tied = {} \/ Len(st) < 18 THEN {}
         ELSE {SwapAt(st, CHOOSE i \in tied : \A j \in tied : i <= j)})

TownsOf(rows) == [k \in 1..Len(rows) |-> rows[k].Town]

OrderOutcomes(rows) == {TownsOf(o) : o \in SortValuesDesc(AssignTotal(rows))}

\* pd.Categorical(values, categories=order): a value outside the categories
\* becomes missing.
Categorical(rows, cats) ==
    [k \in 1..Len(rows) |->
        [rows[k] EXCEPT !.Town = IF @ \in Range(cats) THEN @ ELSE NaN]]

top_n_of(rows) == Min(BarTopN, Len(rows))

\* top20, long_top20, order, and the categorical Town column.
\* pd.Categorical raises ValueError when a category is null.
Chart1Shape ==
    /\ pc = "chart1"
    /\ top20' = DropTotals(nlargest(agg_filtered, top_n_of(agg_filtered)))
    /\ order' \in OrderOutcomes(top20')
    /\ IF \E k \in 1..Len(order') : order'[k].na
       THEN /\ long_top20' = melt(top20')
            /\ pc' = "raised"
            /\ err' = "ValueError: Categorical categories cannot be null"
       ELSE /\ long_top20' = Categorical(melt(top20'), order')
            /\ pc' = "render1"
            /\ err' = err
    /\ UNCHANGED <<csv, rendered, df, agg, slider, n_towns, name_filter,
                   agg_filtered, topN, mat>>

\* px.bar + st.plotly_chart
Chart1Render ==
    /\ pc = "render1"
    /\ rendered' = Append(rendered, "chart1")
    /\ pc' = "chart2"
    /\ UNCHANGED <<csv, err, df, agg, slider, n_towns, name_filter,
                   agg_filtered, top20, long_top20, order, topN, mat>>

\* mat = topN.set_index("Town")[need].rename(columns=pretty)
Matrix(rows) ==
    [index |-> TownsOf(rows),
     columns |-> [j \in 1..Len(need) |-> pretty(need[j])],
     values |-> [k \in 1..Len(rows) |->
                    [j \in 1..Len(need) |-> ValueOf(rows[k], need[j])]]]

Chart2Shape ==
    /\ pc = "chart2"
    /\ topN' = DropTotals(nlargest(agg_filtered, Min(n_towns, Len(agg_filtered))))
    /\ mat' = Matrix(topN')
    /\ pc' = "render2"
    /\ UNCHANGED <<csv, err, rendered, df, agg, slider, n_towns, name_filter,
                   agg_filtered, top20, long_top20, order>>

\* px.imshow + st.plotly_chart, then the insights text
Chart2Render ==
    /\ pc = "render2"
    /\ rendered' = rendered \o <<"chart2", "insights">>
    /\ pc' = "done"
    /\ UNCHANGED <<csv, err, df, agg, slider, n_towns, name_filter,
                   agg_filtered, top20, long_top20, order, topN, mat>>

Next ==
    \/ Page
    \/ Load
    \/ Validate
    \/ Coerce
    \/ Aggregate
    \/ Sidebar
    \/ Filter
    \/ Chart1Shape
    \/ Chart1Render
    \/ Chart2Shape
    \/ Chart2Render

Spec == Init /\ [][Next]_vars

(***************************************************************************)
(* Where the run stands, for stating the properties.                       *)
(***************************************************************************)
ErrDupResource == "TypeError"
ErrDupTown == "ValueError: Grouper for 'Town' not 1-dimensional"
ErrSlider == "StreamlitAPIException"
ErrRegex == "re.error"
ErrCategories == "ValueError: Categorical categories cannot be null"

RequiredNames == {<<"Town">>} \cup {<<need[i]>> : i \in 1..Len(need)}

\* The columns of the table after header normalisation and renaming.
TableColumns == {ColumnName(csv[j].label) : j \in 1..Len(csv)}

PastValidate == pc \notin {"page", "load", "validate"}

\* The loop over need has just finished.
JustCoerced == pc = "aggregate"

\* agg and its TOTAL column have just been computed.
JustAggregated == pc = "sidebar"

\* st.slider has been called / has returned.
SliderCalled ==
    \/ pc \in {"filter", "chart1", "render1", "chart2", "render2", "done"}
    \/ pc = "raised" /\ err \in {ErrSlider, ErrRegex, ErrCategories}

SliderReturned ==
    \/ pc \in {"filter", "chart1", "render1", "chart2", "render2", "done"}
    \/ pc = "raised" /\ err \in {ErrRegex, ErrCategories}

\* The filter step has just run, to the end or into re.error.
JustFiltered == pc = "chart1" \/ (pc = "raised" /\ err = ErrRegex)

\* top20 has just been selected; the categorical column may have raised.
BarSelected == pc = "render1" \/ (pc = "raised" /\ err = ErrCategories)

\* long_top20 carries its categorical Town column.
BarShaped == pc = "render1"

\* topN and mat have just been computed.
HeatShaped == pc = "render2"

RowTotal(r) == r.hospitals + r.clinics + r.pharmacies + r.medical_centers

(***************************************************************************)
(* C1: missing required columns.                                           *)
(***************************************************************************)
SomeRequiredAbsent == \E c \in RequiredNames : c \notin TableColumns

C1_HaltedBeforePipeline ==
    /\ pc = "stopped"
    /\ df = read_csv(csv)
    /\ agg = <<>> /\ agg_filtered = <<>>
    /\ top20 = <<>> /\ long_top20 = <<>> /\ order = <<>>
    /\ topN = <<>> /\ mat = <<>>
    /\ \A k \in 1..Len(rendered) : rendered[k] \notin {"chart1", "chart2", "insights"}

\* C1 as stated: when Town or one of the four resource columns is absent
\* after normalisation and renaming, the run ends in the missing-columns
\* state without coercion, aggregation, chart shape or render, and nothing
\* but the error message is on the page.
C1_NoOutputRendered ==
    (PastValidate /\ SomeRequiredAbsent) =>
        /\ C1_HaltedBeforePipeline
        /\ \A k \in 1..Len(rendered) : rendered[k] = "error"

\* C1 amended: in that case the run stops in the missing-columns state with
\* no coercion, aggregation, chart shape or chart render; the page holds the
\* title, caption and purpose text rendered before the check, then the error
\* message, and no chart.
C1_MissingColumnsHalt ==
    (PastValidate /\ SomeRequiredAbsent) =>
        /\ C1_HaltedBeforePipeline
        /\ rendered = <<"title", "caption", "purpose", "error">>

C1_Witness ==
    /\ pc = "stopped"
    /\ <<"Town">> \in Columns(df)
    /\ <<"hospitals">> \notin Columns(df)
    /\ NRows(df) = SliderMin

(***************************************************************************)
(* C2: per-town sums and TOTAL.                                            *)
(***************************************************************************)
SumWhere(cells, towns, key) ==
    SumSeq([i \in 1..Len(towns) |-> IF towns[i] = key THEN cells[i] ELSE 0])

\* C2: every aggregate row carries, per resource column, the sum of the
\* coerced values of the input records of its Town, and TOTAL is the sum of
\* those four values.
C2_AggregateSums ==
    JustAggregated =>
        LET towns == Col(df, <<"Town">>)
            h == Col(df, <<"hospitals">>)
            c == Col(df, <<"clinics">>)
            p == Col(df, <<"pharmacies">>)
            m == Col(df, <<"medical_centers">>)
        IN  \A k \in 1..Len(agg) :
                /\ agg[k].hospitals = SumWhere(h, towns, agg[k].Town)
                /\ agg[k].clinics = SumWhere(c, towns, agg[k].Town)
                /\ agg[k].pharmacies = SumWhere(p, towns, agg[k].Town)
                /\ agg[k].medical_centers = SumWhere(m, towns, agg[k].Town)
                /\ agg[k].TOTAL = agg[k].hospitals + agg[k].clinics
                                  + agg[k].pharmacies + agg[k].medical_centers

\* Two records of town "AA", (1,0,1,0) and (2,1,2,2), summed to (3,1,3,2), 9.
C2_Witness ==
    /\ pc = "sidebar"
    /\ Cardinality(GroupRows(Col(df, <<"Town">>), Str(TownName(1)))) = 2
    /\ \E k \in 1..Len(agg) :
           agg[k] = [Town |-> Str(TownName(1)), hospitals |-> 3, clinics |-> 1,
                     pharmacies |-> 3, medical_centers |-> 2, TOTAL |-> 9]

(***************************************************************************)
(* C3: coercion of the resource cells.                                     *)
(***************************************************************************)
ResourceCells ==
    {<<j, i>> \in (1..Len(df)) \X (1..NRows(df)) : df[j].name \in RequiredNames \ {<<"Town">>}}

Unsigned(t) == IF t # <<>> /\ Head(t) = "-" THEN Tail(t) ELSE t

IsNumberText(t) ==
    /\ Unsigned(t) # <<>>
    /\ \A i \in 1..Len(Unsigned(t)) : IsDigit(Unsigned(t)[i])

RECURSIVE Magnitude(_)
Magnitude(d) ==
    IF d = <<>> THEN 0
    ELSE 10 * Magnitude(SubSeq(d, 1, Len(d) - 1)) + DigitVal(d[Len(d)])

NumberOf(t) == IF Head(t) = "-" THEN 0 - Magnitude(Tail(t)) ELSE Magnitude(t)

GroupSize(towns, k) == Cardinality({i \in 1..Len(towns) : towns[i] = agg[k].Town})

\* C4: every input record, a record without Town included, falls in exactly
\* one aggregate row; every aggregate row holds at least one record; the
\* group sizes add up to the number of records.
C4_Partition ==
    JustAggregated =>
        LET towns == Col(df, <<"Town">>)
        IN  /\ \A i \in 1..Len(towns) :
                   Cardinality({k \in 1..Len(agg) : agg[k].Town = towns[i]}) = 1
            /\ \A k \in 1..Len(agg) : GroupSize(towns, k) >= 1
            /\ SumSeq([k \in 1..Len(agg) |-> GroupSize(towns, k)]) = Len(towns)

C4_Witness ==
    /\ pc = "sidebar"
    /\ \E i \in 1..NRows(df) : Col(df, <<"Town">>)[i].na
    /\ \E k \in 1..Len(agg) : agg[k].Town.na
    /\ Len(agg) = SliderMin + 1

(***************************************************************************)
(* C5: selection sizes.                                                    *)
(***************************************************************************)
\* C5: the bar chart selects min(20, filtered towns) towns and the heatmap
\* min(M, filtered towns), M the slider value.
C5_SelectionSizes ==
    /\ BarSelected =>
           /\ Len(top20) = Min(BarTopN, Len(agg_filtered))
           /\ Cardinality(Range(TownsOf(top20))) = Len(top20)
    /\ HeatShaped =>
           /\ Len(topN) = Min(n_towns, Len(agg_filtered))
           /\ Cardinality(Range(TownsOf(topN))) = Len(topN)

C5_Witness ==
    /\ pc = "done"
    /\ Strip(name_filter) # <<>>
    /\ Len(agg_filtered) < Len(agg)
    /\ Len(agg_filtered) > BarTopN
    /\ Len(top20) = BarTopN
    /\ n_towns < Len(agg_filtered)
    /\ Len(topN) = n_towns

(***************************************************************************)
(* C6: ranking of the selections and the categorical town ordering.        *)
(***************************************************************************)
\* Towns are unique in the aggregate table; a town that is not there has
\* position 0.
PosOf(town) ==
    IF \E i \in 1..Len(agg_filtered) : agg_filtered[i].Town = town
    THEN CHOOSE i \in 1..Len(agg_filtered) : agg_filtered[i].Town = town
    ELSE 0

\* sel is the head of agg_filtered ranked by descending TOTAL, equal totals
\* in incoming row order.
RankedSelection(sel) ==
    LET pos == [k \in 1..Len(sel) |-> PosOf(sel[k].Town)]
        tot == [k \in 1..Len(sel) |-> RowTotal(sel[k])]
        chosen == {pos[k] : k \in 1..Len(sel)}
    IN  /\ \A k \in 1..Len(sel) :
               pos[k] > 0 /\ DropTotal(agg_filtered[pos[k]]) = sel[k]
        /\ \A k \in 1..(Len(sel) - 1) :
               \/ tot[k] > tot[k + 1]
               \/ tot[k] = tot[k + 1] /\ pos[k] < pos[k + 1]
        /\ \A i \in (1..Len(agg_filtered)) \ chosen :
               \A k \in 1..Len(sel) :
                   \/ tot[k] > agg_filtered[i].TOTAL
                   \/ tot[k] = agg_filtered[i].TOTAL /\ pos[k] < i

TotalOfTown(town) == agg_filtered[PosOf(town)].TOTAL

TiesIn(sel) ==
    \E k \in 1..Len(sel), l \in 1..Len(sel) :
        k # l /\ RowTotal(sel[k]) = RowTotal(sel[l])

LowerText(t) == [i \in 1..Len(t) |-> Lower(t[i])]

HasSubstring(t, sub) ==
    \E k \in 0..(Len(t) - Len(sub)) : SubSeq(t, k + 1, k + Len(sub)) = sub

LiteralMatch(town, text) ==
    ~town.na /\ HasSubstring(LowerText(town.s), LowerText(text))

\* C7: the filter keeps exactly the rows whose Town contains the entered
\* text as a case-insensitive literal substring, whatever the text; an empty
\* or blank text keeps every row; filtering twice is filtering once.
C7_LiteralSubstring ==
    JustFiltered =>
        /\ err # ErrRegex
        /\ \A i \in 1..Len(agg) :
               (agg[i] \in Range(agg_filtered)) <=>
                   (Strip(name_filter) = <<>> \/ LiteralMatch(agg[i].Town, Strip(name_filter)))

(***************************************************************************)
(* C8: no exception once the required columns are present.                 *)
(***************************************************************************)
\* C8: a table holding Town and the four resource columns never ends in an
\* error state, whatever its cells, its number of towns, the filter text
\* and the slider value.
C8_NeverRaises ==
    (\A c \in RequiredNames : c \in TableColumns) =>
        /\ pc # "raised"
        /\ err = ""

(***************************************************************************)
(* C9: the slider range.                                                   *)
(***************************************************************************)
\* C9: the range offered by the slider is 10..min(60, towns), the default
\* min(30, towns) lies inside it, and the value returned lies inside it,
\* for every number of towns.
C9_SliderRange ==
    /\ SliderCalled =>
           /\ slider.min_value = SliderMin
           /\ slider.max_value = Min(SliderCap, Len(agg))
           /\ slider.min_value <= slider.value
           /\ slider.value <= slider.max_value
           /\ slider.value = Min(SliderDefault, Len(agg))
    /\ SliderReturned =>
           /\ SliderMin <= n_towns
           /\ n_towns <= Min(SliderCap, Len(agg))

(***************************************************************************)
(* C10: the long-form bar table.                                           *)
(***************************************************************************)
\* C10: for every bar selection the long table has 4 rows per selected town,
\* one per resource label, no (Town, Resource) pair twice, each count the
\* town's aggregate value, and no row with a missing Town category.
C10_LongForm ==
    BarSelected =>
        /\ Len(long_top20) = 4 * Len(top20)
        /\ \A k \in 1..Len(top20), j \in 1..Len(need) :
               Cardinality({i \in 1..Len(long_top20) :
                   /\ long_top20[i].Town = top20[k].Town
                   /\ long_top20[i].Resource = pretty(need[j])
                   /\ long_top20[i].count = ValueOf(top20[k], need[j])}) = 1
        /\ \A i \in 1..Len(long_top20) : ~long_top20[i].Town.na
        /\ pc # "raised"

====
